---- MODULE Spec2Model ----
(***************************************************************************)
(* MerchantAI: the Gemini service client (services/geminiService), the App *)
(* session state (App.tsx) and the ResultCard editor with its canvas       *)
(* compositing (components/ResultCard.tsx).                                *)
(*                                                                         *)
(* One step of a specification is one turn of the browser's event loop: a  *)
(* user event handler, or the continuation of an awaited promise, run to   *)
(* completion together with the promise reactions it queues.               *)
(***************************************************************************)
EXTENDS Integers, Sequences, FiniteSets, Bags, TLC

VARIABLES
    harness,        \* what drives the run: "app", "service" or "canvas"
    apiKey,         \* process.env.API_KEY
    state,          \* App: the AppState record held by useState
    card,           \* ResultCard: its local useState cells, and whether it is mounted
    contentCalls,   \* App: the bag of handleGenerate runs awaiting generateProductContent
    imageCalls,     \* App: the bag of handleGenerateImage runs awaiting generateLifestyleImage
    lastEvent,      \* App: the handler or continuation that ran last, and how it ended
    svc,            \* service: the call of generateProductContent/generateLifestyleImage under way
    comp,           \* ResultCard: the handleDownload run under way
    prov            \* App (history): where the active listing and the held image come from

vars ==
    <<harness, apiKey, state, card, contentCalls, imageCalls, lastEvent, svc, comp, prov>>

-----------------------------------------------------------------------------
(* JavaScript values                                                       *)

\* null / undefined of a string-typed or File-typed cell
NULL == "null"
\* the .message of a rejection value that is not an Error (a ProgressEvent)
UNDEFINED == "undefined"

\* JavaScript truthiness of a string | null | undefined
Truthy(s) == s # NULL /\ s # UNDEFINED /\ s # ""

\* String.prototype.trim() on the texts of the model
Trim(s) == IF s = " " THEN "" ELSE s

\* JSON values: null, or an object whose fields carry a JSON type and a content
NoFields == [f \in {} |-> [t |-> "string", s |-> ""]]
JNull == [type |-> "null", fields |-> NoFields]
JObj(f) == [type |-> "object", fields |-> f]
JStr(s) == [t |-> "string", s |-> s]
JArr(s) == [t |-> "array", s |-> s]

\* obj.name of a parsed value (undefined when the field is missing)
Field(v, name) ==
    IF v.type = "object" /\ name \in DOMAIN v.fields THEN v.fields[name].s ELSE UNDEFINED

-----------------------------------------------------------------------------
(* types.ts                                                                *)

StringFields ==
    {"productName", "shortDescription", "longDescription", "suggestedPrice",
     "socialMediaPost", "targetAudience"}
ArrayFields == {"seoKeywords", "hashtags"}
ListingFields == StringFields \cup ArrayFields

\* a value that is a GeneratedProductContent: all eight fields, each of its type
IsGeneratedProductContent(v) ==
    /\ v.type = "object"
    /\ \A f \in ListingFields : f \in DOMAIN v.fields
    /\ \A f \in StringFields : v.fields[f].t = "string"
    /\ \A f \in ArrayFields : v.fields[f].t = "array"

GenerationStatus == {"IDLE", "LOADING", "SUCCESS", "ERROR"}

\* a complete listing as the service is contracted to return it
Listing(name, price) ==
    JObj([productName |-> JStr(name), shortDescription |-> JStr("short " \o name),
          longDescription |-> JStr("long"), suggestedPrice |-> JStr(price),
          seoKeywords |-> JArr("kw"), hashtags |-> JArr("#"),
          socialMediaPost |-> JStr("post"), targetAudience |-> JStr("aud")])

L1 == Listing("Kaftan", "N15,000")
L2 == Listing("Sandal", "N9,000")

\* bodies that break the schema: fields missing, a field of the wrong shape
PartialListing == JObj([productName |-> JStr("Kaftan"), suggestedPrice |-> JStr("N15,000")])
WrongShapeListing ==
    JObj([f \in ListingFields |->
            IF f = "seoKeywords" THEN JStr("kw") ELSE L1.fields[f]])

-----------------------------------------------------------------------------
(* services/geminiService: results and responses                           *)

NoResult == [kind |-> "none", msg |-> "", value |-> JNull, uri |-> NULL]
Throw(m) == [kind |-> "error", msg |-> m, value |-> JNull, uri |-> NULL]
ReturnValue(v) == [kind |-> "value", msg |-> "", value |-> v, uri |-> NULL]
ReturnUri(u) == [kind |-> "value", msg |-> "", value |-> JNull, uri |-> u]

MsgKeyMissingContent == "API Key is missing. Please check your environment variables."
MsgKeyMissingImage == "API Key is missing."
MsgNoInput == "Please provide an image or text description."
MsgContentFailed == "Failed to generate content. Please try again."
MsgNoResponse == "No response generated"
MsgNoImage == "No image generated by the model."
MsgImageFailed == "Failed to generate lifestyle image."

\* response.text of a content response: absent, or a text that is or is not JSON
NoText == [present |-> FALSE, syntax |-> "none", value |-> JNull]
EmptyText == [present |-> TRUE, syntax |-> "empty", value |-> JNull]
GarbageText == [present |-> TRUE, syntax |-> "garbage", value |-> JNull]
JsonText(v) == [present |-> TRUE, syntax |-> "json", value |-> v]

\* what ai.models.generateContent may do on the content call
TransportError == [ok |-> FALSE, text |-> NoText]
ContentResponse(t) == [ok |-> TRUE, text |-> t]
ContentResponses ==
    {TransportError} \cup
    {ContentResponse(t) : t \in {NoText, EmptyText, GarbageText, JsonText(JNull),
                                 JsonText(L1), JsonText(L2),
                                 JsonText(PartialListing), JsonText(WrongShapeListing)}}

\* content parts of an image response
TextPart == [inline |-> FALSE, data |-> "", mimeType |-> NULL]
InlinePart(d, m) == [inline |-> TRUE, data |-> d, mimeType |-> m]

ImageTransportError == [ok |-> FALSE, hasParts |-> FALSE, parts |-> <<>>]
ImageResponse(ps) == [ok |-> TRUE, hasParts |-> TRUE, parts |-> ps]
NoCandidates == [ok |-> TRUE, hasParts |-> FALSE, parts |-> <<>>]
ImageResponses ==
    {ImageTransportError, NoCandidates} \cup
    {ImageResponse(ps) : ps \in {<<>>, <<TextPart>>, <<InlinePart("", "image/png")>>,
                                 <<TextPart, InlinePart("AAA", "image/jpeg")>>,
                                 <<InlinePart("BBB", NULL), InlinePart("AAA", "image/jpeg")>>}}

-----------------------------------------------------------------------------
(* services/geminiService: generateProductContent                          *)

ContentBasePrompt == "You are an expert e-commerce copywriter"

\* promptText: the base prompt, and the user's context when textInput is truthy
ContentPrompt(textInput) ==
    IF Truthy(textInput)
    THEN <<ContentBasePrompt, "User provided context: ", textInput,
           ". Use this context to refine the description.">>
    ELSE <<ContentBasePrompt>>

\* (mutation) the input check is left out
ContentEntry_NoInputCheck(key, imageFile, textInput) ==
    IF ~Truthy(key) THEN [next |-> "throw", result |-> Throw(MsgKeyMissingContent)]
    ELSE IF Truthy(imageFile) THEN [next |-> "read", result |-> NoResult]
    ELSE [next |-> "transport", result |-> NoResult]

\* The synchronous prefix of generateProductContent: the credential check, the
\* prompt, the input check, and where the call suspends first.
ContentEntry(key, imageFile, textInput) ==
    IF ~Truthy(key) THEN [next |-> "throw", result |-> Throw(MsgKeyMissingContent)]
    ELSE IF ~Truthy(imageFile) /\ ~Truthy(textInput)
         THEN [next |-> "throw", result |-> Throw(MsgNoInput)]
    ELSE IF Truthy(imageFile) THEN [next |-> "read", result |-> NoResult]
    ELSE [next |-> "transport", result |-> NoResult]

\* JSON.parse(text) as GeneratedProductContent: a cast, no check of the fields
JsonParse(text) ==
    IF text.syntax = "json" THEN ReturnValue(text.value) ELSE Throw("SyntaxError")

\* the body of the try block, once the transport call has settled
ContentTryBody(resp) ==
    IF ~resp.ok THEN Throw("transport")
    ELSE IF ~resp.text.present \/ resp.text.syntax = "empty" THEN Throw(MsgNoResponse)
    ELSE JsonParse(resp.text)

\* try { ... } catch: every error of the try block becomes the generic one
ContentOutcome(resp) ==
    LET r == ContentTryBody(resp)
    IN  IF r.kind = "error" THEN Throw(MsgContentFailed) ELSE r

-----------------------------------------------------------------------------
(* services/geminiService: generateLifestyleImage                          *)

EditDirective == "IMPORTANT EDIT INSTRUCTION: "
PreserveDirective == " preserve the key visual details of the product in the input image"

\* (mutation) the edit instruction is left out of the prompt
ImagePrompt_NoEdit(originalImage, productName, description, editInstruction) ==
    <<"Create a high-quality lifestyle shot for the product ", productName,
      "Context/Description: ", description>>
    \o (IF Truthy(originalImage) THEN <<PreserveDirective>> ELSE <<>>)

\* promptText as sent: the base prompt with productName and description, the
\* edit directive when editInstruction is truthy, the reference-image directive
ImagePrompt(originalImage, productName, description, editInstruction) ==
    <<"Create a high-quality lifestyle shot for the product ", productName,
      "Context/Description: ", description>>
    \o (IF Truthy(editInstruction) THEN <<EditDirective, editInstruction>> ELSE <<>>)
    \o (IF Truthy(originalImage) THEN <<PreserveDirective>> ELSE <<>>)

\* (mutation) the credential is checked only when no image has to be read
ImageEntry_ReadsFirst(key, originalImage) ==
    IF Truthy(originalImage) THEN [next |-> "read", result |-> NoResult]
    ELSE IF ~Truthy(key) THEN [next |-> "throw", result |-> Throw(MsgKeyMissingImage)]
    ELSE [next |-> "transport", result |-> NoResult]

\* The synchronous prefix of generateLifestyleImage.
ImageEntry(key, originalImage) ==
    IF ~Truthy(key) THEN [next |-> "throw", result |-> Throw(MsgKeyMissingImage)]
    ELSE IF Truthy(originalImage) THEN [next |-> "read", result |-> NoResult]
    ELSE [next |-> "transport", result |-> NoResult]

\* part.inlineData && part.inlineData.data
HasInlineData(part) == part.inline /\ part.data # ""

DataUri(part) ==
    "data:" \o (IF Truthy(part.mimeType) THEN part.mimeType ELSE "image/png")
            \o ";base64," \o part.data

\* the first part of the response that carries inline data, 0 when none does
RECURSIVE FirstInline(_, _)
FirstInline(parts, i) ==
    IF i > Len(parts) THEN 0
    ELSE IF HasInlineData(parts[i]) THEN i
    ELSE FirstInline(parts, i + 1)

\* the body of the try block, once the transport call has settled
ImageTryBody(resp) ==
    IF ~resp.ok THEN Throw("transport")
    ELSE LET i == IF resp.hasParts THEN FirstInline(resp.parts, 1) ELSE 0
         IN  IF i > 0 THEN ReturnUri(DataUri(resp.parts[i])) ELSE Throw(MsgNoImage)

\* try { ... } catch: every error of the try block, the "no image" one thrown
\* inside it included, becomes the generic one
ImageOutcome(resp) ==
    LET r == ImageTryBody(resp)
    IN  IF r.kind = "error" THEN Throw(MsgImageFailed) ELSE r

\* fileToGenerativePart rejects with the FileReader's error event (no .message)
ReadRejection == Throw(UNDEFINED)

-----------------------------------------------------------------------------
(* Bounds and input sets                                                   *)

\* calls the model lets be pending at once (the code has no limit)
MaxPending == 2

Files == {"F1", "F2"}
Texts == {"", " ", "kaftan"}
Instructions == {"", " ", "red"}
ApiKeys == {NULL, "", "key"}

-----------------------------------------------------------------------------
(* The service called directly: one call at a time, step by step           *)

SvcIdle ==
    [fn |-> "none", pc |-> "idle", image |-> NULL, text |-> "", productName |-> "",
     description |-> "", editInstruction |-> "", sentPrompt |-> <<>>, sentImage |-> NULL,
     reads |-> 0, transportCalls |-> 0, answered |-> FALSE,
     contentResp |-> TransportError, imageResp |-> ImageTransportError,
     result |-> NoResult]

\* the call after its synchronous prefix: thrown, reading the file, or sent
SvcAfterEntry(call, entry, prompt) ==
    [call EXCEPT
        !.pc = IF entry.next = "throw" THEN "done" ELSE entry.next,
        !.reads = IF entry.next = "read" THEN 1 ELSE 0,
        !.transportCalls = IF entry.next = "transport" THEN 1 ELSE 0,
        !.sentPrompt = IF entry.next = "transport" THEN prompt ELSE <<>>,
        !.result = entry.result]

SvcCallContent(imageFile, textInput) ==
    /\ harness = "service"
    /\ svc.pc \in {"idle", "done"}
    /\ svc' = SvcAfterEntry([SvcIdle EXCEPT !.fn = "content", !.image = imageFile,
                                            !.text = textInput],
                            ContentEntry(apiKey, imageFile, textInput),
                            ContentPrompt(textInput))
    /\ UNCHANGED <<harness, apiKey, prov, state, card, contentCalls, imageCalls, lastEvent, comp>>

SvcCallImage(originalImage, productName, description, editInstruction) ==
    /\ harness = "service"
    /\ svc.pc \in {"idle", "done"}
    /\ svc' = SvcAfterEntry([SvcIdle EXCEPT !.fn = "image", !.image = originalImage,
                                            !.productName = productName,
                                            !.description = description,
                                            !.editInstruction = editInstruction],
                            ImageEntry(apiKey, originalImage),
                            ImagePrompt(originalImage, productName, description,
                                        editInstruction))
    /\ UNCHANGED <<harness, apiKey, prov, state, card, contentCalls, imageCalls, lastEvent, comp>>

\* fileToGenerativePart settles: the part is pushed and the request sent, or the
\* rejection leaves the function (the await is outside the try block)
SvcReadSettles(ok) ==
    /\ harness = "service"
    /\ svc.pc = "read"
    /\ svc' = IF ok
              THEN [svc EXCEPT !.pc = "transport",
                               !.transportCalls = @ + 1,
                               !.sentImage = svc.image,
                               !.sentPrompt =
                                   IF svc.fn = "content" THEN ContentPrompt(svc.text)
                                   ELSE ImagePrompt(svc.image, svc.productName,
                                                    svc.description, svc.editInstruction)]
              ELSE [svc EXCEPT !.pc = "done", !.result = ReadRejection]
    /\ UNCHANGED <<harness, apiKey, prov, state, card, contentCalls, imageCalls, lastEvent, comp>>

SvcContentSettles(resp) ==
    /\ harness = "service"
    /\ svc.pc = "transport"
    /\ svc.fn = "content"
    /\ svc' = [svc EXCEPT !.pc = "done", !.answered = TRUE, !.contentResp = resp,
                          !.result = ContentOutcome(resp)]
    /\ UNCHANGED <<harness, apiKey, prov, state, card, contentCalls, imageCalls, lastEvent, comp>>

SvcImageSettles(resp) ==
    /\ harness = "service"
    /\ svc.pc = "transport"
    /\ svc.fn = "image"
    /\ svc' = [svc EXCEPT !.pc = "done", !.answered = TRUE, !.imageResp = resp,
                          !.result = ImageOutcome(resp)]
    /\ UNCHANGED <<harness, apiKey, prov, state, card, contentCalls, imageCalls, lastEvent, comp>>

SvcNext ==
    \/ \E f \in Files \cup {NULL}, t \in Texts : SvcCallContent(f, t)
    \/ \E f \in Files \cup {NULL}, e \in Instructions :
          SvcCallImage(f, "Kaftan", "short Kaftan", e)
    \/ \E ok \in BOOLEAN : SvcReadSettles(ok)
    \/ \E r \in ContentResponses : SvcContentSettles(r)
    \/ \E r \in ImageResponses : SvcImageSettles(r)

-----------------------------------------------------------------------------
(* App.tsx: the session state                                              *)

InitialState ==
    [status |-> "IDLE", data |-> JNull, error |-> NULL, selectedImage |-> NULL,
     imagePreviewUrl |-> NULL, textInput |-> "", isGeneratingImage |-> FALSE,
     marketingImageUrl |-> NULL]

MsgPleaseUpload == "Please upload an image or enter a description first."
MsgSomethingWrong == "Something went wrong. Please try again."

\* err.message || "Something went wrong. Please try again."
ErrorMessage(result) == IF Truthy(result.msg) THEN result.msg ELSE MsgSomethingWrong

\* the history record of a step: the handler or continuation, how it ended, and
\* for a continuation whether another flow had started since its call
Event(op, outcome) == [op |-> op, outcome |-> outcome, stale |-> FALSE]
Settled(op, result, call) ==
    [op |-> op, outcome |-> IF result.kind = "value" THEN "ok" ELSE "fail",
     stale |-> call.superseded]

\* a pending call: the image it was given, and whether another flow (a later
\* generation request or a reset) has started since
Call(image) == [image |-> image, superseded |-> FALSE]

\* a pending call of generateLifestyleImage: also whether state.data, whose
\* productName and shortDescription it was given, has been replaced since
ImageCall(image) == [image |-> image, superseded |-> FALSE, replaced |-> FALSE]

\* the calls of the service that have not settled
Pending == BagCardinality(contentCalls) + BagCardinality(imageCalls)

\* a new flow starts: the calls still pending belong to an earlier one
Superseded(calls) ==
    LET Old(c) == [c EXCEPT !.superseded = TRUE]
        Count(c) == IF c \in DOMAIN calls THEN calls[c] ELSE 0
    IN  [x \in {Old(c) : c \in DOMAIN calls} |->
            Count(x) + Count([x EXCEPT !.superseded = FALSE])]

\* history of the session, kept by the specifications that record it: the image
\* the request that produced state.data was given, and whether the request that
\* produced state.marketingImageUrl was issued for the state.data of now (FALSE
\* while there is no image)
NoProv == [recorded |-> FALSE, source |-> NULL, imageOfActive |-> FALSE]

\* the history after a step
Record(new) == prov' = IF prov.recorded THEN new ELSE prov

\* state.data is replaced: the pending image calls were issued for an earlier one
Replaced(calls) ==
    LET Old(c) == [c EXCEPT !.replaced = TRUE]
        Count(c) == IF c \in DOMAIN calls THEN calls[c] ELSE 0
    IN  IF ~prov.recorded THEN calls
        ELSE [x \in {Old(c) : c \in DOMAIN calls} |->
                Count(x) + Count([x EXCEPT !.replaced = FALSE])]

\* what the app harness lets the content call answer: a failure, or a body that
\* is null or honours the schema (rendering any other record throws inside
\* ResultCard, which the model does not follow)
AppContentResponses ==
    {r \in ContentResponses :
        r.text.syntax = "json" => r.text.value \in {JNull, L1, L2}}

-----------------------------------------------------------------------------
(* components/ResultCard.tsx: local state, mounting                        *)

UnmountedCard ==
    [mounted |-> FALSE, customPrice |-> NULL, priceDep |-> NULL, editPrompt |-> "",
     businessName |-> "", logoUrl |-> NULL]

\* useState initial values at mount
MountedCard(data) ==
    [mounted |-> TRUE, customPrice |-> Field(data, "suggestedPrice"),
     priceDep |-> Field(data, "suggestedPrice"), editPrompt |-> "",
     businessName |-> "", logoUrl |-> NULL]

\* App renders ResultCard only under status === SUCCESS && state.data
ShowsResultCard(s) == s.status = "SUCCESS" /\ s.data.type # "null"

\* (mutation) the cells outlive the unmount, as they would if held by App
Rerender_KeepsCells(s, c) ==
    IF ~ShowsResultCard(s) THEN [c EXCEPT !.mounted = FALSE]
    ELSE IF ~c.mounted
         THEN [c EXCEPT !.mounted = TRUE,
                        !.customPrice = Field(s.data, "suggestedPrice"),
                        !.priceDep = Field(s.data, "suggestedPrice")]
    ELSE IF c.priceDep # Field(s.data, "suggestedPrice")
         THEN [c EXCEPT !.customPrice = Field(s.data, "suggestedPrice"),
                        !.priceDep = Field(s.data, "suggestedPrice")]
    ELSE c

\* The render that follows a state change: ResultCard is unmounted (its cells
\* are lost), mounted afresh, or kept, and then its effect on
\* [data.suggestedPrice] re-initialises customPrice when that value changed.
Rerender(s, c) ==
    IF ~ShowsResultCard(s) THEN UnmountedCard
    ELSE IF ~c.mounted THEN MountedCard(s.data)
    ELSE IF c.priceDep # Field(s.data, "suggestedPrice")
         THEN [c EXCEPT !.customPrice = Field(s.data, "suggestedPrice"),
                        !.priceDep = Field(s.data, "suggestedPrice")]
    ELSE c

-----------------------------------------------------------------------------
(* App.tsx: handlers and continuations                                     *)

HandleFileSelect(file) ==
    /\ harness = "app"
    /\ state' = [state EXCEPT !.selectedImage = file,
                              !.imagePreviewUrl = "blob:" \o file,
                              !.error = NULL]
    /\ card' = Rerender(state', card)
    /\ lastEvent' = Event("edit", "none")
    /\ UNCHANGED <<harness, apiKey, prov, contentCalls, imageCalls, svc, comp>>

HandleTextChange(text) ==
    /\ harness = "app"
    /\ state' = [state EXCEPT !.textInput = text]
    /\ card' = Rerender(state', card)
    /\ lastEvent' = Event("edit", "none")
    /\ UNCHANGED <<harness, apiKey, prov, contentCalls, imageCalls, svc, comp>>

\* disabled={state.status === GenerationStatus.LOADING}
GenerateListingEnabled(s) == s.status # "LOADING"

\* if (!state.selectedImage && !state.textInput.trim())
NoInput(s) == ~Truthy(s.selectedImage) /\ ~Truthy(Trim(s.textInput))

\* setState(prev => ({...prev, status: LOADING, error: null, ...}))
LoadingState(s) ==
    [s EXCEPT !.status = "LOADING", !.error = NULL, !.marketingImageUrl = NULL,
              !.isGeneratingImage = FALSE]

\* (mutation) the catch block records the message and leaves the phase
ContentFailedState_KeepsPhase(s, result) == [s EXCEPT !.error = ErrorMessage(result)]

\* the catch block of handleGenerate
ContentFailedState(s, result) ==
    [s EXCEPT !.status = "ERROR", !.error = ErrorMessage(result)]

\* the success continuation of handleGenerate
ContentSucceededState(s, result) ==
    [s EXCEPT !.status = "SUCCESS", !.data = result.value]

HandleGenerateInvalid ==
    /\ harness = "app"
    /\ GenerateListingEnabled(state)
    /\ NoInput(state)
    /\ state' = [state EXCEPT !.error = MsgPleaseUpload]
    /\ card' = Rerender(state', card)
    /\ lastEvent' = Event("generate", "invalid")
    /\ UNCHANGED <<harness, apiKey, prov, contentCalls, imageCalls, svc, comp>>

\* The service throws in its synchronous prefix: the catch block runs in the
\* same turn, after the LOADING update.
HandleGenerateThrows ==
    /\ harness = "app"
    /\ GenerateListingEnabled(state)
    /\ ~NoInput(state)
    /\ LET entry == ContentEntry(apiKey, state.selectedImage, state.textInput)
       IN  /\ entry.next = "throw"
           /\ state' = ContentFailedState(LoadingState(state), entry.result)
    /\ card' = Rerender(state', card)
    /\ contentCalls' = Superseded(contentCalls)
    /\ imageCalls' = Superseded(imageCalls)
    /\ Record([prov EXCEPT !.imageOfActive = FALSE])
    /\ lastEvent' = Event("generate", "fail")
    /\ UNCHANGED <<harness, apiKey, svc, comp>>

HandleGenerateCalls ==
    /\ harness = "app"
    /\ GenerateListingEnabled(state)
    /\ ~NoInput(state)
    /\ Pending < MaxPending
    /\ ContentEntry(apiKey, state.selectedImage, state.textInput).next # "throw"
    /\ state' = LoadingState(state)
    /\ card' = Rerender(state', card)
    /\ contentCalls' = Superseded(contentCalls) (+) SetToBag({Call(state.selectedImage)})
    /\ imageCalls' = Superseded(imageCalls)
    /\ Record([prov EXCEPT !.imageOfActive = FALSE])
    /\ lastEvent' = Event("generate", "called")
    /\ UNCHANGED <<harness, apiKey, svc, comp>>

\* how a pending call of generateProductContent may settle
ContentSettlements(c) ==
    {ContentOutcome(r) : r \in AppContentResponses}
    \cup (IF Truthy(c.image) THEN {ReadRejection} ELSE {})

ContentSettles(c, result) ==
    /\ harness = "app"
    /\ c \in DOMAIN contentCalls
    /\ state' = IF result.kind = "value" THEN ContentSucceededState(state, result)
                ELSE ContentFailedState(state, result)
    /\ card' = Rerender(state', card)
    /\ contentCalls' = contentCalls (-) SetToBag({c})
    /\ imageCalls' = IF result.kind = "value" THEN Replaced(imageCalls) ELSE imageCalls
    /\ Record(IF result.kind = "value"
              THEN [prov EXCEPT !.source = c.image, !.imageOfActive = FALSE]
              ELSE prov)
    /\ lastEvent' = Settled("content", result, c)
    /\ UNCHANGED <<harness, apiKey, svc, comp>>

\* handleGenerateImage(editInstruction), entered from a control of ResultCard
\* whose local state after the click is cardAfter
HandleGenerateImage(editInstruction, cardAfter) ==
    LET entry == ImageEntry(apiKey, state.selectedImage)
    IN  /\ state.data.type # "null"
        /\ entry.next # "throw" => Pending < MaxPending
        /\ state' = [state EXCEPT !.isGeneratingImage = (entry.next # "throw")]
        /\ card' = Rerender(state', cardAfter)
        /\ imageCalls' =
              IF entry.next = "throw" THEN Superseded(imageCalls)
              ELSE Superseded(imageCalls) (+) SetToBag({ImageCall(state.selectedImage)})
        /\ contentCalls' = Superseded(contentCalls)
        /\ lastEvent' = Event("genImage", IF entry.next = "throw" THEN "fail" ELSE "called")
        /\ UNCHANGED <<harness, apiKey, prov, svc, comp>>

\* handleGenerateImage entered while state.data is null: it returns on its first
\* line. No control of the UI calls it then (ResultCard, which holds the
\* controls, is rendered only with data); the handler is called directly.
HandleGenerateImageNoListing ==
    /\ harness = "app"
    /\ state.data.type = "null"
    /\ lastEvent' = Event("genImage", "noop")
    /\ UNCHANGED <<harness, apiKey, prov, state, card, contentCalls, imageCalls, svc, comp>>

\* the "Generate AI Photo" button: onClick={() => onGenerateImage()}
ClickGenerateAIPhoto ==
    /\ harness = "app"
    /\ card.mounted
    /\ ~Truthy(state.marketingImageUrl)
    /\ ~state.isGeneratingImage
    /\ HandleGenerateImage("", card)

\* the "Update Photo" button
HandleEditGenerate ==
    /\ harness = "app"
    /\ card.mounted
    /\ Truthy(state.marketingImageUrl)
    /\ ~state.isGeneratingImage
    /\ Truthy(Trim(card.editPrompt))
    /\ HandleGenerateImage(card.editPrompt, [card EXCEPT !.editPrompt = ""])

ImageSettlements(c) ==
    {ImageOutcome(r) : r \in ImageResponses}
    \cup (IF Truthy(c.image) THEN {ReadRejection} ELSE {})

\* (mutation) the success continuation also clears the error field
ImageSucceededState_ClearsError(s, result) ==
    [s EXCEPT !.isGeneratingImage = FALSE, !.marketingImageUrl = result.uri,
              !.error = NULL]

\* the success continuation of handleGenerateImage
ImageSucceededState(s, result) ==
    [s EXCEPT !.isGeneratingImage = FALSE, !.marketingImageUrl = result.uri]

\* (mutation) the catch block only alerts
ImageFailedState_KeepsFlag(s) == s

\* the catch block of handleGenerateImage, after its alert
ImageFailedState(s) == [s EXCEPT !.isGeneratingImage = FALSE]

ImageSettles(c, result) ==
    /\ harness = "app"
    /\ c \in DOMAIN imageCalls
    /\ state' = IF result.kind = "value" THEN ImageSucceededState(state, result)
                ELSE ImageFailedState(state)
    /\ card' = Rerender(state', card)
    /\ imageCalls' = imageCalls (-) SetToBag({c})
    /\ Record(IF result.kind = "value" THEN [prov EXCEPT !.imageOfActive = ~c.replaced]
              ELSE prov)
    /\ lastEvent' = Settled("image", result, c)
    /\ UNCHANGED <<harness, apiKey, contentCalls, svc, comp>>

ResetApp ==
    /\ harness = "app"
    /\ state' = InitialState
    /\ card' = Rerender(state', card)
    /\ contentCalls' = Superseded(contentCalls)
    /\ imageCalls' = Replaced(Superseded(imageCalls))
    /\ Record([NoProv EXCEPT !.recorded = TRUE])
    /\ lastEvent' = Event("reset", "none")
    /\ UNCHANGED <<harness, apiKey, svc, comp>>

-----------------------------------------------------------------------------
(* components/ResultCard.tsx: the editor's controls (shown with the image)  *)

BusinessNames == {"", "Shop"}
LogoFiles == {"logo.png"}
PriceInputs == {"5,000"}

EditorShown == card.mounted /\ Truthy(state.marketingImageUrl)

CardEdit(newCard) ==
    /\ harness = "app"
    /\ EditorShown
    /\ card' = newCard
    /\ lastEvent' = Event("edit", "none")
    /\ UNCHANGED <<harness, apiKey, prov, state, contentCalls, imageCalls, svc, comp>>

SetBusinessName(name) == CardEdit([card EXCEPT !.businessName = name])

HandleLogoUpload(file) == CardEdit([card EXCEPT !.logoUrl = "blob:" \o file])

ClearLogo == Truthy(card.logoUrl) /\ CardEdit([card EXCEPT !.logoUrl = NULL])

\* (mutation) the price typed is written into the listing record
SetCustomPrice_WritesListing(value) ==
    /\ harness = "app"
    /\ EditorShown
    /\ state' = [state EXCEPT
                   !.data = JObj([@.fields EXCEPT !.suggestedPrice = JStr("N" \o value)])]
    /\ card' = Rerender(state', [card EXCEPT !.customPrice = "N" \o value])
    /\ lastEvent' = Event("edit", "none")
    /\ UNCHANGED <<harness, apiKey, prov, contentCalls, imageCalls, svc, comp>>

\* onChange={(e) => setCustomPrice(`N${e.target.value}`)}, N the naira sign
SetCustomPrice(value) == CardEdit([card EXCEPT !.customPrice = "N" \o value])

SetEditPrompt(text) == CardEdit([card EXCEPT !.editPrompt = text])

Next ==
    \/ \E f \in Files : HandleFileSelect(f)
    \/ \E t \in Texts : HandleTextChange(t)
    \/ HandleGenerateInvalid
    \/ HandleGenerateThrows
    \/ HandleGenerateCalls
    \/ \E c \in DOMAIN contentCalls : \E r \in ContentSettlements(c) : ContentSettles(c, r)
    \/ ClickGenerateAIPhoto
    \/ HandleEditGenerate
    \/ \E c \in DOMAIN imageCalls : \E r \in ImageSettlements(c) : ImageSettles(c, r)
    \/ ResetApp
    \/ \E n \in BusinessNames : SetBusinessName(n)
    \/ \E f \in LogoFiles : HandleLogoUpload(f)
    \/ ClearLogo
    \/ \E v \in PriceInputs : SetCustomPrice(v)
    \/ \E t \in Instructions : SetEditPrompt(t)

-----------------------------------------------------------------------------
(* JavaScript numbers, as exact non-negative-denominator fractions with     *)
(* NaN and Infinity (rounding of the binary representation is not modelled) *)

RECURSIVE GCD(_, _)
GCD(a, b) == IF b = 0 THEN a ELSE GCD(b, a % b)
Abs(i) == IF i < 0 THEN -i ELSE i

Frac(n, d) ==
    LET g == GCD(Abs(n), Abs(d))
    IN  IF d < 0 THEN [n |-> -(n \div g), d |-> (-d) \div g]
        ELSE [n |-> n \div g, d |-> d \div g]
Num(i) == [n |-> i, d |-> 1]
NaN == [n |-> 0, d |-> 0]
Infinity == [n |-> 1, d |-> 0]

IsNaN(x) == x.d = 0 /\ x.n = 0
IsInfinite(x) == x.d = 0 /\ x.n # 0
IsFinite(x) == x.d # 0
IsZero(x) == x.d # 0 /\ x.n = 0

\* a binary operation on the values of its operands, each evaluated once
Binary(Op(_, _), a, b) == CHOOSE r \in {Op(x, y) : x \in {a}, y \in {b}} : TRUE

\* a * b, of operands that are not negative infinity
Times(a, b) ==
    LET Product(x, y) ==
            IF IsNaN(x) \/ IsNaN(y) THEN NaN
            ELSE IF IsInfinite(x) \/ IsInfinite(y)
                 THEN (IF IsZero(x) \/ IsZero(y) THEN NaN ELSE Infinity)
            ELSE Frac(x.n * y.n, x.d * y.d)
    IN  Binary(Product, a, b)

\* a / b, of operands that are not negative
Over(a, b) ==
    LET Quotient(x, y) ==
            IF IsNaN(x) \/ IsNaN(y) THEN NaN
            ELSE IF IsInfinite(y) THEN (IF IsInfinite(x) THEN NaN ELSE Num(0))
            ELSE IF IsInfinite(x) THEN Infinity
            ELSE IF IsZero(y) THEN (IF IsZero(x) THEN NaN ELSE Infinity)
            ELSE Frac(x.n * y.d, x.d * y.n)
    IN  Binary(Quotient, a, b)

Plus(a, b) ==
    LET Sum(x, y) ==
            IF IsNaN(x) \/ IsNaN(y) THEN NaN
            ELSE IF IsInfinite(x) \/ IsInfinite(y) THEN Infinity
            ELSE Frac(x.n * y.d + y.n * x.d, x.d * y.d)
    IN  Binary(Sum, a, b)

\* a - b, of finite operands
Minus(a, b) ==
    LET Difference(x, y) ==
            IF ~IsFinite(x) \/ ~IsFinite(y) THEN NaN
            ELSE Frac(x.n * y.d - y.n * x.d, x.d * y.d)
    IN  Binary(Difference, a, b)

\* a > b (false when either is NaN)
Greater(a, b) ==
    LET Exceeds(x, y) ==
            IF IsNaN(x) \/ IsNaN(y) THEN FALSE
            ELSE IF IsInfinite(y) THEN FALSE
            ELSE IF IsInfinite(x) THEN TRUE
            ELSE x.n * y.d > y.n * x.d
    IN  Binary(Exceeds, a, b)

\* Math.max(a, b)
Max(a, b) ==
    LET Larger(x, y) ==
            IF IsNaN(x) \/ IsNaN(y) THEN NaN ELSE IF Greater(y, x) THEN y ELSE x
    IN  Binary(Larger, a, b)

-----------------------------------------------------------------------------
(* components/ResultCard.tsx: handleDownload, the compositing              *)

\* one call on the 2D context, and whether the canvas drew anything for it
\* (a call with a non-finite coordinate or size draws nothing)
DrawCall(op, arg, x, y, w, h) ==
    [op |-> op, arg |-> arg, x |-> x, y |-> y, w |-> w, h |-> h,
     drawn |-> IsFinite(x) /\ IsFinite(y) /\ IsFinite(w) /\ IsFinite(h)]

NoLink == [download |-> NULL, clicked |-> FALSE]

NoComp ==
    [pc |-> "idle", invoked |-> FALSE, hasCtx |-> FALSE, canvasCreated |-> FALSE,
     url |-> NULL, logoUrl |-> NULL, businessName |-> "", customPrice |-> NULL,
     productName |-> "", logoSettled |-> FALSE, logoLoaded |-> FALSE,
     width |-> 0, height |-> 0, imgWidth |-> 0, imgHeight |-> 0,
     logoWidth |-> 0, logoHeight |-> 0, brandingY |-> NaN,
     calls |-> <<>>, link |-> NoLink]

\* document.createElement('canvas'): a canvas starts 300 wide and 150 high
NewCanvas(c) == [c EXCEPT !.canvasCreated = TRUE, !.width = 300, !.height = 150]

\* (mutation) the canvas keeps the size it was created with
SizeCanvas_KeepsDefault(c, w, h) == [c EXCEPT !.imgWidth = w, !.imgHeight = h]

\* canvas.width = img.width; canvas.height = img.height, of the loaded base
\* image whose natural size is w x h
SizeCanvas(c, w, h) ==
    [c EXCEPT !.imgWidth = w, !.imgHeight = h, !.width = w, !.height = h]

\* productName.replace(/\s+/g, '-').toLowerCase(), on the names of the model
Slug(name) ==
    CASE name = "Kaftan" -> "kaftan"
      [] name = "Sandal" -> "sandal"
      [] name = "Blue  Kaftan" -> "blue-kaftan"
      [] OTHER -> name

\* (mutation) no early return on a missing base image
HandleDownload_NoGuard(hasCtx) ==
    /\ harness = "canvas"
    /\ comp.pc \in {"idle", "done", "stalled", "aborted"}
    /\ card.mounted
    /\ comp' = [NewCanvas(NoComp) EXCEPT
                              !.invoked = TRUE, !.pc = "loadingBase",
                              !.hasCtx = hasCtx,
                              !.url = state.marketingImageUrl,
                              !.logoUrl = card.logoUrl,
                              !.businessName = card.businessName,
                              !.customPrice = card.customPrice,
                              !.productName = Field(state.data, "productName")]
    /\ UNCHANGED <<harness, apiKey, prov, state, card, contentCalls, imageCalls, lastEvent, svc>>

\* handleDownload up to img.src = marketingImageUrl: the values its closure holds
HandleDownload(hasCtx) ==
    /\ harness = "canvas"
    /\ comp.pc \in {"idle", "done", "stalled", "aborted"}
    /\ card.mounted
    /\ comp' =
          IF ~Truthy(state.marketingImageUrl)
          THEN [NoComp EXCEPT !.invoked = TRUE]
          ELSE [NewCanvas(NoComp) EXCEPT
                              !.invoked = TRUE, !.pc = "loadingBase",
                              !.hasCtx = hasCtx,
                              !.url = state.marketingImageUrl,
                              !.logoUrl = card.logoUrl,
                              !.businessName = card.businessName,
                              !.customPrice = card.customPrice,
                              !.productName = Field(state.data, "productName")]
    /\ UNCHANGED <<harness, apiKey, prov, state, card, contentCalls, imageCalls, lastEvent, svc>>

\* the base image fails to load: img has no onerror, nothing runs again
BaseImageError ==
    /\ harness = "canvas"
    /\ comp.pc = "loadingBase"
    /\ comp' = [comp EXCEPT !.pc = "stalled"]
    /\ UNCHANGED <<harness, apiKey, prov, state, card, contentCalls, imageCalls, lastEvent, svc>>

ScaleFactor(imgWidth) == Over(Num(imgWidth), Num(1000))
BrandingX(imgWidth) == Times(Num(40), ScaleFactor(imgWidth))
BrandingY0(imgWidth) == Times(Num(40), ScaleFactor(imgWidth))
LogoSize(imgWidth) == Times(Num(120), ScaleFactor(imgWidth))

\* (mutation) the height is not capped
LogoDraw_NoCap(imgWidth, logoWidth, logoHeight) ==
    [w |-> LogoSize(imgWidth),
     h |-> Over(LogoSize(imgWidth), Over(Num(logoWidth), Num(logoHeight)))]

\* the size the logo is drawn at, from its natural width and height
LogoDraw(imgWidth, logoWidth, logoHeight) ==
    LET logoSize == LogoSize(imgWidth)
        aspectRatio == Over(Num(logoWidth), Num(logoHeight))
        drawHeight == Over(logoSize, aspectRatio)
    IN  IF Greater(drawHeight, logoSize)
        THEN [w |-> Times(logoSize, aspectRatio), h |-> logoSize]
        ELSE [w |-> logoSize, h |-> drawHeight]

\* the business name and the price tag, then the download: the rest of onload
\* from "Draw Business Name if exists", given the calls so far and brandingY
DrawRest(c, calls, brandingY, textWidth, hasRoundRect) ==
    LET W == Num(c.imgWidth)
        nameCalls ==
            IF Truthy(c.businessName)
            THEN <<DrawCall("fillText", c.businessName, BrandingX(c.imgWidth), brandingY,
                            Num(0), Num(0))>>
            ELSE <<>>
        fontSize == Max(Num(20), Times(W, Frac(5, 100)))
        padding == Times(fontSize, Frac(6, 10))
        x == Times(W, Frac(95, 100))
        y == Times(Num(c.imgHeight), Frac(95, 100))
        tw == Num(textWidth)
        pillX == Minus(Minus(x, tw), Times(padding, Num(2)))
        pillY == Minus(Minus(y, fontSize), padding)
        pillW == Plus(tw, Times(padding, Num(2)))
        pillH == Plus(fontSize, Times(padding, Frac(15, 10)))
        pill == DrawCall(IF hasRoundRect THEN "roundRect" ELSE "fillRect", "white",
                         pillX, pillY, pillW, pillH)
        price == DrawCall("fillText", c.customPrice, Minus(x, padding), y, Num(0), Num(0))
    IN  [c EXCEPT !.pc = "done",
                  !.brandingY = brandingY,
                  !.calls = calls \o nameCalls \o <<pill, price>>,
                  !.link = [download |-> "merchant-ai-" \o Slug(c.productName) \o ".png",
                            clicked |-> TRUE]]

\* img.onload: the canvas is sized and the base image drawn; without a context
\* the handler returns; with a logo it awaits the logo's load or error
BaseImageLoads(w, h, textWidth, hasRoundRect) ==
    /\ harness = "canvas"
    /\ comp.pc = "loadingBase"
    /\ LET sized == [SizeCanvas(comp, w, h) EXCEPT !.brandingY = BrandingY0(w)]
           base == <<DrawCall("drawImage", "base", Num(0), Num(0), Num(w), Num(h))>>
       IN  comp' =
             IF ~comp.hasCtx THEN [sized EXCEPT !.pc = "done"]
             ELSE IF Truthy(comp.logoUrl)
                  THEN [sized EXCEPT !.pc = "loadingLogo", !.calls = base]
             ELSE DrawRest(sized, base, BrandingY0(w), textWidth, hasRoundRect)
    /\ UNCHANGED <<harness, apiKey, prov, state, card, contentCalls, imageCalls, lastEvent, svc>>

\* the logo's load or error event resolves the awaited promise. A logo that
\* failed to load has width = height = 0; drawImage of such an image either
\* throws InvalidStateError (the image's state is checked first) or returns
\* without drawing (the non-finite height is checked first): brokenThrows.
LogoSettles(loaded, lw, lh, brokenThrows, textWidth, hasRoundRect) ==
    /\ harness = "canvas"
    /\ comp.pc = "loadingLogo"
    /\ loaded => ~brokenThrows
    /\ LET w == IF loaded THEN lw ELSE 0
           h == IF loaded THEN lh ELSE 0
           size == LogoDraw(comp.imgWidth, w, h)
           draw == DrawCall("drawImage", "logo", BrandingX(comp.imgWidth),
                            comp.brandingY, size.w, size.h)
           logoCall == [draw EXCEPT !.drawn = @ /\ loaded]
           brandingY == Plus(comp.brandingY,
                             Plus(size.h, Times(Num(20), ScaleFactor(comp.imgWidth))))
       IN  comp' =
             IF brokenThrows
             THEN [comp EXCEPT !.pc = "aborted", !.logoSettled = TRUE,
                               !.logoLoaded = loaded]
             ELSE DrawRest([comp EXCEPT !.logoSettled = TRUE, !.logoLoaded = loaded,
                                        !.logoWidth = w, !.logoHeight = h],
                           comp.calls \o <<logoCall>>, brandingY, textWidth, hasRoundRect)
    /\ UNCHANGED <<harness, apiKey, prov, state, card, contentCalls, imageCalls, lastEvent, svc>>

\* natural sizes of the images, and widths measureText may report
BaseSizes == {<<1000, 1000>>, <<500, 800>>}
LogoSizes == {<<200, 100>>, <<100, 200>>, <<64, 64>>}
TextWidths == {90, 240}

CompNext ==
    \/ \E hasCtx \in BOOLEAN : HandleDownload(hasCtx)
    \/ BaseImageError
    \/ \E sz \in BaseSizes, tw \in TextWidths, rr \in BOOLEAN :
          BaseImageLoads(sz[1], sz[2], tw, rr)
    \/ \E loaded \in BOOLEAN, sz \in LogoSizes, bt \in BOOLEAN,
          tw \in TextWidths, rr \in BOOLEAN :
          LogoSettles(loaded, sz[1], sz[2], bt, tw, rr)

-----------------------------------------------------------------------------
(* Specifications                                                          *)

Init ==
    /\ harness = "app"
    /\ apiKey \in {NULL, "key"}
    /\ state = InitialState
    /\ card = UnmountedCard
    /\ contentCalls = EmptyBag
    /\ imageCalls = EmptyBag
    /\ lastEvent = Event("init", "none")
    /\ svc = SvcIdle
    /\ comp = NoComp
    /\ prov = NoProv

SvcInit ==
    /\ harness = "service"
    /\ apiKey \in ApiKeys
    /\ state = InitialState
    /\ card = UnmountedCard
    /\ contentCalls = EmptyBag
    /\ imageCalls = EmptyBag
    /\ lastEvent = Event("init", "none")
    /\ svc = SvcIdle
    /\ comp = NoComp
    /\ prov = NoProv

\* a session showing a listing, with or without a generated image, whose
\* editor cells hold any of the model's values
CompInit ==
    /\ harness = "canvas"
    /\ apiKey = "key"
    /\ \E d \in {L1, Listing("Blue  Kaftan", "N9,000")},
          u \in {NULL, "data:image/png;base64,BBB"} :
          state = [InitialState EXCEPT !.status = "SUCCESS", !.data = d,
                                       !.textInput = "kaftan", !.marketingImageUrl = u]
    /\ \E l \in {NULL, "blob:logo.png"}, b \in BusinessNames,
          p \in {Field(state.data, "suggestedPrice"), "N5,000"} :
          card = [MountedCard(state.data) EXCEPT !.logoUrl = l, !.businessName = b,
                                                 !.customPrice = p]
    /\ contentCalls = EmptyBag
    /\ imageCalls = EmptyBag
    /\ lastEvent = Event("init", "none")
    /\ svc = SvcIdle
    /\ comp = NoComp
    /\ prov = NoProv

\* the App in a browser, its history recorded
ProvInit ==
    /\ harness = "app"
    /\ apiKey \in {NULL, "key"}
    /\ state = InitialState
    /\ card = UnmountedCard
    /\ contentCalls = EmptyBag
    /\ imageCalls = EmptyBag
    /\ lastEvent = Event("init", "none")
    /\ svc = SvcIdle
    /\ comp = NoComp
    /\ prov = [NoProv EXCEPT !.recorded = TRUE]

\* the App in a browser
Spec == Init /\ [][Next]_vars
\* the App in a browser, with the history of its listing and image
ProvSpec == ProvInit /\ [][Next]_vars
\* the App in a browser, and handleGenerateImage called directly without a listing
HandlerSpec == Init /\ [][Next \/ HandleGenerateImageNoListing]_vars
\* the service module called directly
SvcSpec == SvcInit /\ [][SvcNext]_vars
\* handleDownload run on a shown listing
CompSpec == CompInit /\ [][CompNext]_vars
\* content and image generation at both levels: the App, and the service alone
GenSpec == (Init \/ SvcInit) /\ [][Next \/ SvcNext]_vars

\* The remote service answers or fails a pending request, and an image that is
\* loading fires load or error: the steps the environment owes the program.
ServiceAnswers ==
    /\ WF_vars(\E c \in DOMAIN contentCalls :
                  \E r \in ContentSettlements(c) : ContentSettles(c, r))
    /\ WF_vars(\E c \in DOMAIN imageCalls :
                  \E r \in ImageSettlements(c) : ImageSettles(c, r))

ImagesSettle ==
    /\ WF_vars(BaseImageError
                  \/ \E sz \in BaseSizes, tw \in TextWidths, rr \in BOOLEAN :
                        BaseImageLoads(sz[1], sz[2], tw, rr))
    /\ WF_vars(\E loaded \in BOOLEAN, sz \in LogoSizes, bt \in BOOLEAN,
                  tw \in TextWidths, rr \in BOOLEAN :
                  LogoSettles(loaded, sz[1], sz[2], bt, tw, rr))

\* the App and handleDownload under that assumption; the user's own steps are
\* not owed
LiveSpec ==
    (Init \/ CompInit) /\ [][Next \/ CompNext]_vars /\ ServiceAnswers /\ ImagesSettle

-----------------------------------------------------------------------------
(* Claims                                                                  *)

SvcDone(fn) == harness = "service" /\ svc.fn = fn /\ svc.pc = "done"

\* C1: for every input with an image or a text, whatever the service answers,
\* generateProductContent ends with an error or with a record holding all eight
\* fields of a listing, never with a partly populated record.
C1_AllEightOrError ==
    (SvcDone("content") /\ (Truthy(svc.image) \/ Truthy(svc.text)))
    => (svc.result.kind = "error" \/ IsGeneratedProductContent(svc.result.value))

\* C2 as stated: with neither image nor text, generation fails with the
\* input-validation error and without a transport call, at the service and at
\* the session level, whatever the credential.
C2_ValidationWhateverCredential ==
    [][/\ (svc'.fn = "content" /\ svc'.pc = "done"
              /\ ~Truthy(svc'.image) /\ ~Truthy(svc'.text))
          => (svc'.result = Throw(MsgNoInput) /\ svc'.transportCalls = 0)
       /\ (lastEvent'.op = "generate" /\ NoInput(state))
          => /\ lastEvent'.outcome = "invalid"
             /\ state' = [state EXCEPT !.error = MsgPleaseUpload]
             /\ UNCHANGED <<contentCalls, imageCalls>>]_vars

\* C2 as amended: with neither image nor text, generation fails without a
\* transport call; handleGenerate fails with its input-validation message
\* whatever the credential; generateProductContent fails with the
\* input-validation error when the credential is present and with the
\* credential error when it is absent.
C2_ValidationBeforeTransport ==
    [][/\ (svc'.fn = "content" /\ svc'.pc = "done"
              /\ ~Truthy(svc'.image) /\ ~Truthy(svc'.text))
          => /\ svc'.result = IF Truthy(apiKey) THEN Throw(MsgNoInput)
                              ELSE Throw(MsgKeyMissingContent)
             /\ svc'.transportCalls = 0
             /\ svc'.reads = 0
       /\ (lastEvent'.op = "generate" /\ NoInput(state))
          => /\ lastEvent'.outcome = "invalid"
             /\ state' = [state EXCEPT !.error = MsgPleaseUpload]
             /\ UNCHANGED <<contentCalls, imageCalls>>]_vars

C2_Witness ==
    /\ SvcDone("content")
    /\ Truthy(apiKey)
    /\ ~Truthy(svc.image) /\ svc.text = ""
    /\ svc.result = Throw(MsgNoInput)

\* C3: without a credential, generateProductContent and generateLifestyleImage
\* fail at once with the credential message, for every input, with no transport
\* call and no read of the image.
C3_MissingCredentialFailsFirst ==
    (harness = "service" /\ ~Truthy(apiKey) /\ svc.fn # "none")
    => /\ svc.pc = "done"
       /\ svc.result = Throw(IF svc.fn = "content" THEN MsgKeyMissingContent
                             ELSE MsgKeyMissingImage)
       /\ svc.transportCalls = 0
       /\ svc.reads = 0

C3_Witness ==
    /\ SvcDone("image")
    /\ ~Truthy(apiKey)
    /\ Truthy(svc.image)
    /\ svc.result = Throw(MsgKeyMissingImage)

\* C4: when the image service answers and no part of the answer carries inline
\* image data, generateLifestyleImage fails with the "no image generated" error,
\* which differs from the generic "image generation failed" error.
C4_NoImageErrorSurfaces ==
    (/\ SvcDone("image")
     /\ svc.answered
     /\ svc.imageResp.ok
     /\ (~svc.imageResp.hasParts \/ FirstInline(svc.imageResp.parts, 1) = 0))
    => (svc.result = Throw(MsgNoImage) /\ svc.result # Throw(MsgImageFailed))

\* C5: in every reachable session state at most one content-generation request
\* and at most one image-generation request are pending.
C5_OneRequestPerKind ==
    harness = "app"
    => (BagCardinality(contentCalls) <= 1 /\ BagCardinality(imageCalls) <= 1)

\* C6: the answer of a generation request does not change the session state
\* once another flow (a later generation request or a reset) has started.
C6_StaleAnswerWritesNothing ==
    [][(lastEvent'.op \in {"content", "image"} /\ lastEvent'.stale)
       => state' = state]_vars

\* what "the composition is discarded" means for the card after a step
Discarded(c, s) ==
    /\ c.logoUrl = NULL
    /\ c.businessName = ""
    /\ c.mounted => c.customPrice = Field(s.data, "suggestedPrice")

StartsNewListing(e) ==
    \/ e.op = "reset"
    \/ e.op = "generate" /\ e.outcome \in {"called", "fail"}

NewBaseImage(e) == e.op = "image" /\ e.outcome = "ok"

\* C7 as stated: logo, business name and price are discarded both when the user
\* starts a new listing and whenever a new base image is generated.
C7_DiscardedOnListingAndImage ==
    [][/\ (StartsNewListing(lastEvent') \/ NewBaseImage(lastEvent'))
          => Discarded(card', state')
       /\ (~card.mounted /\ card'.mounted) => card' = MountedCard(state'.data)]_vars

\* C7 as amended: logo, business name and price are discarded when the user
\* starts a new listing (the card is unmounted, and every mount starts from an
\* empty logo and name and the listing's suggestedPrice); a newly generated base
\* image, an edit regeneration included, leaves them as they are.
C7_DiscardedOnListingKeptOnImage ==
    [][/\ StartsNewListing(lastEvent') => card' = UnmountedCard
       /\ (~card.mounted /\ card'.mounted) => card' = MountedCard(state'.data)
       /\ NewBaseImage(lastEvent') => card' = card]_vars

C7_Witness ==
    /\ NewBaseImage(lastEvent)
    /\ card.mounted
    /\ Truthy(card.logoUrl)
    /\ card.businessName = "Shop"
    /\ card.customPrice = "N5,000"

Failed(e) == e.outcome = "fail"

\* C8 as stated: after a failed content or image generation the phase is idle
\* or the earlier success, never loading, and the generation controls are
\* enabled.
C8_FailureReturnsToIdleOrSuccess ==
    (harness = "app" /\ Failed(lastEvent))
    => /\ state.status \in {"IDLE", "SUCCESS"}
       /\ GenerateListingEnabled(state)
       /\ ~state.isGeneratingImage

\* C8 as amended: a failed content generation leaves the phase at ERROR with an
\* error message and the Generate Listing control enabled; a failed image
\* generation leaves the phase as it was and isGeneratingImage false.
C8_FailureLeavesActionableState ==
    [][/\ (Failed(lastEvent') /\ lastEvent'.op \in {"generate", "content"})
          => /\ state'.status = "ERROR"
             /\ Truthy(state'.error)
             /\ GenerateListingEnabled(state')
       /\ (Failed(lastEvent') /\ lastEvent'.op \in {"genImage", "image"})
          => /\ state'.status = state.status
             /\ ~state'.isGeneratingImage]_vars

C8_Witness ==
    /\ lastEvent = Event("content", "fail")
    /\ state.status = "ERROR"
    /\ state.error = MsgContentFailed

NameDrawn(c) ==
    \E i \in 1..Len(c.calls) :
        /\ c.calls[i].op = "fillText"
        /\ c.calls[i].arg = c.businessName
        /\ c.calls[i].drawn

PriceTagDrawn(c) ==
    /\ \E i \in 1..Len(c.calls) :
          c.calls[i].op \in {"roundRect", "fillRect"} /\ c.calls[i].drawn
    /\ \E i \in 1..Len(c.calls) :
          /\ c.calls[i].op = "fillText"
          /\ c.calls[i].arg = c.customPrice
          /\ c.calls[i].drawn

LogoDrawn(c) ==
    \E i \in 1..Len(c.calls) :
        c.calls[i].op = "drawImage" /\ c.calls[i].arg = "logo" /\ c.calls[i].drawn

\* C9: when the logo is set and fails to load, compositing goes on without it:
\* the logo is not drawn, the business name (when there is one) is drawn at a
\* defined position, the price tag is drawn, and the PNG is downloaded.
C9_GoesOnWithoutLogo ==
    (harness = "canvas" /\ comp.logoSettled /\ ~comp.logoLoaded)
    => /\ comp.pc = "done"
       /\ ~LogoDrawn(comp)
       /\ Truthy(comp.businessName) => NameDrawn(comp)
       /\ PriceTagDrawn(comp)
       /\ comp.link.clicked

\* C10: handleDownload with no base image (marketingImageUrl null) does nothing:
\* no canvas is created, nothing is drawn, no file is downloaded.
C10_DownloadWithoutImageIsNoOp ==
    (harness = "canvas" /\ comp.invoked /\ ~Truthy(state.marketingImageUrl))
    => /\ comp = [NoComp EXCEPT !.invoked = TRUE]
       /\ ~comp.canvasCreated
       /\ comp.calls = <<>>
       /\ comp.link = NoLink

C10_Witness ==
    /\ harness = "canvas"
    /\ comp.invoked
    /\ ~Truthy(state.marketingImageUrl)
    /\ Truthy(card.logoUrl)

\* C11: whenever the composite is serialized for download, with or without logo
\* and business name and for any price text, the canvas has exactly the natural
\* width and height of the base image.
C11_RasterHasBaseSize ==
    (harness = "canvas" /\ comp.link.clicked)
    => (comp.width = comp.imgWidth /\ comp.height = comp.imgHeight)

C11_Witness ==
    /\ harness = "canvas"
    /\ comp.link.clicked
    /\ comp.logoLoaded
    /\ Truthy(comp.businessName)
    /\ comp.imgWidth = 500 /\ comp.imgHeight = 800
    /\ comp.width = 500 /\ comp.height = 800

\* the drawImage calls made for the logo
LogoCalls(c) ==
    {i \in 1..Len(c.calls) : c.calls[i].op = "drawImage" /\ c.calls[i].arg = "logo"}

\* C12: a loaded logo of positive natural size lw x lh is drawn, with
\* L = 120 * (base width / 1000), no higher and no wider than L; when it is
\* taller than wide its height is exactly L and its width L * (lw / lh); the
\* drawn width / height ratio is lw / lh.
C12_LogoFitsReferenceSize ==
    (harness = "canvas" /\ comp.logoSettled /\ comp.logoLoaded)
    => /\ LogoCalls(comp) # {}
       /\ \A i \in LogoCalls(comp) :
            LET d == comp.calls[i]
                L == Frac(120 * comp.imgWidth, 1000)
                lw == comp.logoWidth
                lh == comp.logoHeight
            IN  /\ lw > 0 /\ lh > 0
                /\ d.drawn
                /\ ~Greater(d.h, L)
                /\ ~Greater(d.w, L)
                /\ lh > lw => (d.h = L /\ d.w = Frac(120 * comp.imgWidth * lw, 1000 * lh))
                /\ Times(d.w, Num(lh)) = Times(d.h, Num(lw))

C12_Witness ==
    /\ harness = "canvas"
    /\ comp.logoSettled /\ comp.logoLoaded
    /\ comp.logoHeight > comp.logoWidth
    /\ comp.imgWidth = 500
    /\ \E i \in LogoCalls(comp) :
          comp.calls[i].h = Num(60) /\ comp.calls[i].w = Num(30)

\* the prompt carries the edit directive followed by the text
HasEditDirective(prompt, text) ==
    \E i \in 1..(Len(prompt) - 1) : prompt[i] = EditDirective /\ prompt[i + 1] = text

\* C13: every request generateLifestyleImage sends for a non-empty
\* editInstruction carries that instruction's literal text in its prompt, with
\* or without an original image; for an empty editInstruction the prompt holds
\* no edit directive.
C13_PromptCarriesInstruction ==
    (harness = "service" /\ svc.fn = "image" /\ svc.transportCalls > 0)
    => /\ svc.editInstruction # "" => HasEditDirective(svc.sentPrompt, svc.editInstruction)
       /\ svc.editInstruction = ""
          => \A i \in 1..Len(svc.sentPrompt) : svc.sentPrompt[i] # EditDirective
       /\ svc.sentImage = svc.image

C13_Witness ==
    /\ harness = "service"
    /\ svc.fn = "image"
    /\ svc.transportCalls = 1
    /\ svc.editInstruction = "red"
    /\ svc.sentImage = "F1"
    /\ HasEditDirective(svc.sentPrompt, "red")

\* C14: the image given to every image-generation request, first generation
\* or edit regeneration, is the uploaded image from which state.data was produced
\* (none when it was produced from text only), never the generated lifestyle
\* image and never another upload.
C14_RequestsCarryListingSource ==
    [][(lastEvent'.op = "genImage" /\ lastEvent'.outcome = "called")
       => \A c \in DOMAIN imageCalls' :
             ~c.superseded
             => /\ c.image = prov.source
                /\ c.image \in Files \cup {NULL}
                /\ c.image # state.marketingImageUrl \/ c.image = NULL]_vars

SuggestedPrice(s) == Field(s.data, "suggestedPrice")

\* C15: while the card is shown, its price changes either by an edit of the
\* user, which changes only customPrice and leaves state.data, the rest of the
\* session state and the pending calls as they are, or by the re-initialisation
\* to data.suggestedPrice when data.suggestedPrice has changed; an edit never
\* changes state.data.
C15_PriceEditIsLocal ==
    [][/\ (card.mounted /\ card'.mounted /\ card'.customPrice # card.customPrice)
          => \/ /\ lastEvent'.op = "edit"
                /\ state' = state
                /\ card' = [card EXCEPT !.customPrice = card'.customPrice]
                /\ UNCHANGED <<contentCalls, imageCalls>>
             \/ /\ SuggestedPrice(state') # SuggestedPrice(state)
                /\ card'.customPrice = SuggestedPrice(state')
       /\ lastEvent'.op = "edit" => state'.data = state.data]_vars

C15_Witness ==
    /\ harness = "app"
    /\ lastEvent.op = "edit"
    /\ card.mounted
    /\ card.customPrice = "N5,000"
    /\ state.data = L1
    /\ SuggestedPrice(state) = "N15,000"

\* a handleDownload run that has ended: the file download was triggered, or the
\* run failed (the base image fired error, drawImage threw, or there is no 2D
\* context and onload returned)
DownloadEnded(c) ==
    \/ c.link.clicked
    \/ c.pc \in {"stalled", "aborted"}
    \/ c.pc = "done" /\ ~c.hasCtx

\* C16: when the service answers or fails every request and every image fires
\* load or error, a session in phase LOADING leaves LOADING, isGeneratingImage
\* true is followed by isGeneratingImage false, and a download started on a base
\* image triggers the file download or fails.
C16_OperationsEnd ==
    /\ (harness = "app" /\ state.status = "LOADING")
          ~> (state.status # "LOADING")
    /\ (harness = "app" /\ state.isGeneratingImage)
          ~> (~state.isGeneratingImage)
    /\ (harness = "canvas" /\ comp.pc \in {"loadingBase", "loadingLogo"})
          ~> DownloadEnded(comp)

C16_Witness ==
    /\ harness = "app"
    /\ state.isGeneratingImage
    /\ BagCardinality(imageCalls) = 1
    /\ state.status = "SUCCESS"

\* C17: in every reachable session state isGeneratingImage is true exactly when
\* a call of generateLifestyleImage is awaiting its answer.
C17_FlagMeansRequestInFlight ==
    harness = "app" => (state.isGeneratingImage <=> BagCardinality(imageCalls) > 0)

\* C18: a held marketing image goes with an active listing and was produced by
\* a request issued for that listing; starting a new listing generation or
\* resetting clears the image, and no later step brings back an image of an
\* earlier listing.
C18_ImageBelongsToActiveListing ==
    [][/\ StartsNewListing(lastEvent') => state'.marketingImageUrl = NULL
       /\ Truthy(state'.marketingImageUrl)
          => (state'.data.type # "null" /\ prov'.imageOfActive)]_vars

\* C19: a failed image generation changes nothing of the session state but
\* isGeneratingImage, which it sets to false; a successful one changes only
\* marketingImageUrl and isGeneratingImage; handleGenerateImage entered without
\* a listing changes nothing and sends no request.
C19_ImageGenerationFrame ==
    [][/\ (lastEvent'.op \in {"image", "genImage"} /\ lastEvent'.outcome = "fail")
          => state' = [state EXCEPT !.isGeneratingImage = FALSE]
       /\ (lastEvent'.op = "image" /\ lastEvent'.outcome = "ok")
          => /\ state' = [state EXCEPT !.isGeneratingImage = FALSE,
                                       !.marketingImageUrl = state'.marketingImageUrl]
             /\ Truthy(state'.marketingImageUrl)
       /\ (lastEvent'.op = "genImage" /\ state.data.type = "null")
          => /\ state' = state
             /\ card' = card
             /\ UNCHANGED <<contentCalls, imageCalls>>]_vars

C19_Witness ==
    /\ harness = "app"
    /\ lastEvent.op = "image"
    /\ lastEvent.outcome = "fail"
    /\ state.status = "SUCCESS"
    /\ Truthy(state.marketingImageUrl)
    /\ ~state.isGeneratingImage

\* C20: in every reachable session state, status SUCCESS goes with a non-null
\* data and a null error, and status ERROR with a non-null error.
C20_PhaseMatchesPayload ==
    harness = "app"
    => /\ state.status = "SUCCESS" => (state.data.type # "null" /\ state.error = NULL)
       /\ state.status = "ERROR" => state.error # NULL

====
